---- MODULE Spec2Model ----
(***************************************************************************)
(* A model of util/sps.c: the H.264 Sequence Parameter Set decoder         *)
(* h264_sps_decode, its bit cursor (struct getbit, get_bit), the           *)
(* Exponential-Golomb reader get_ue_golomb and the scaling-matrix reader.  *)
(*                                                                         *)
(* One step of the model is one pass through a piece of straight-line code *)
(* that calls get_bit at most once, so every state the cursor goes through *)
(* is a state of the model.                                                *)
(*                                                                         *)
(* Numbers.  The C type `unsigned` is 32 bits wide.  TLC's integers are    *)
(* 32-bit signed, so an unsigned value is held as two 16-bit limbs         *)
(* [hi, lo], value hi * 2^16 + lo.  The same record with an unbounded hi   *)
(* holds an exact (mathematical) integer; Trunc reduces it modulo 2^32.    *)
(***************************************************************************)
EXTENDS Integers, Sequences, FiniteSets, TLC

VARIABLES
    buf,      \* the caller's buffer: a sequence of bytes
    len,      \* the length the caller passes
    sps,      \* the caller's struct h264_sps
    pc,       \* where h264_sps_decode is
    ret,      \* what h264_sps_decode returned (when pc = "done")
    gb,       \* struct getbit: [pos, end]
    ue,       \* the frame of the running get_ue_golomb
    loc,      \* the locals of h264_sps_decode
    sm,       \* the locals of decode_scaling_matrix and scaling_list
    stderr,   \* the messages written to stderr
    build,    \* what this build does with a shift by 32 or more
    caller    \* the calling program: which call this is, what it passed

vars == <<buf, len, sps, pc, ret, gb, ue, loc, sm, stderr, build, caller>>

---------------------------------------------------------------------------
(* Program constants *)

MAX_SPS_COUNT == 32
MAX_LOG2_MAX_FRAME_NUM == 16
MACROBLOCK_SIZE == 16
MAX_MACROBLOCKS == 1048576

EINVAL == 22
EBADMSG == 74
ENOTSUP == 95

---------------------------------------------------------------------------
(* Exact integers and 32-bit unsigned arithmetic *)

Limb == 2^16

W(n) == [hi |-> n \div Limb, lo |-> n % Limb]

WHL(h, l) == [hi |-> h, lo |-> l]

WAdd(a, b) ==
    LET s == a.lo + b.lo
    IN  [hi |-> a.hi + b.hi + (s \div Limb), lo |-> s % Limb]

WMul(a, k) ==
    LET p == a.lo * k
    IN  [hi |-> a.hi * k + (p \div Limb), lo |-> p % Limb]

WLt(a, b) == a.hi < b.hi \/ (a.hi = b.hi /\ a.lo < b.lo)

WLe(a, b) == a = b \/ WLt(a, b)

\* conversion to unsigned: the value modulo 2^32
Trunc(w) == [hi |-> w.hi % Limb, lo |-> w.lo]

U32Add(a, b) == Trunc(WAdd(a, b))

U32Mul(a, k) == Trunc(WMul(a, k))

U32Sub(a, b) ==
    LET borrow == IF a.lo < b.lo THEN 1 ELSE 0
    IN  [hi |-> (a.hi - b.hi - borrow + 2 * Limb) % Limb,
         lo |-> (a.lo - b.lo + Limb) % Limb]

\* a % 256
U32Mod256(a) == a.lo % 256

\* err += in place of err |=
IntPlus(a, b) == a + b

\* bitwise or of two non-negative ints
RECURSIVE IntOr(_, _)
IntOr(a, b) ==
    IF a = 0 THEN b
    ELSE IF b = 0 THEN a
    ELSE 2 * IntOr(a \div 2, b \div 2) + (IF a % 2 = 1 \/ b % 2 = 1 THEN 1 ELSE 0)

U32Or(a, b) == [hi |-> IntOr(a.hi, b.hi), lo |-> IntOr(a.lo, b.lo)]

\* the unsigned value with only bit n (0..31) set
OneHot(n) == IF n < 16 THEN WHL(0, 2^n) ELSE WHL(2^(n - 16), 0)

(***************************************************************************)
(* x << n for a one-bit x.  For n < 32 the result is the bit at place n    *)
(* (1 << 31 on the int 1 is the sign bit, 0x80000000 once stored in the    *)
(* unsigned info).  For n >= 32 the C shift is undefined: a build either   *)
(* masks the count to five bits (x86) or shifts everything out (ARM).      *)
(***************************************************************************)
Builds == {"mask", "zero"}

Shl(x, n, b) ==
    IF x = 0 THEN W(0)
    ELSE IF n < 32 THEN OneHot(n)
    ELSE IF b = "mask" THEN OneHot(n % 32)
    ELSE W(0)

\* the builds a run that shifts by n may turn out to be
BuildsFor(n) == IF n < 32 \/ build # "any" THEN {build} ELSE Builds

---------------------------------------------------------------------------
(* struct getbit *)

getbit_init(size) == [pos |-> 0, end |-> size]

\* an off-by-one in the count of bits left
getbit_get_left_off_by_one(g) == IF g.end >= g.pos THEN g.end - g.pos + 1 ELSE 0

getbit_get_left(g) == IF g.end > g.pos THEN g.end - g.pos ELSE 0

\* the byte get_bit reads: buf + 3 is the cursor's base
ByteAt(g) == buf[3 + (g.pos \div 8) + 1]

(***************************************************************************)
(* get_bit: [bit, gb, past], past when it was called with nothing left     *)
(* (it then prints and returns 0 without moving).                          *)
(***************************************************************************)
get_bit(g) ==
    IF g.pos >= g.end
    THEN [bit |-> 0, gb |-> g, past |-> TRUE]
    ELSE [bit |-> (ByteAt(g) \div 2^(7 - (g.pos % 8))) % 2,
          gb |-> [g EXCEPT !.pos = @ + 1],
          past |-> FALSE]

Log(r) == IF r.past THEN stderr \cup {"get_bit: read past end"} ELSE stderr

---------------------------------------------------------------------------
(* get_ue_golomb *)

UEIdle == [pc |-> "idle", zeros |-> 0, info |-> W(0), i |-> 0,
           valp |-> <<"NULL", "">>, err |-> 0]

\* the frame of a call get_ue_golomb(&gb, valp); valp is <<object, field>>
UECall(valp) == [UEIdle EXCEPT !.pc = "zeros", !.valp = valp]

UERunning == ue.pc \in {"zeros", "info"}

\* the - 1 forgotten
ue_value_no_bias(info) == info

\* line 424: the value stored, info - 1
ue_value(info) == U32Sub(info, W(1))

\* *valp = v
Store(obj, name, v) ==
    IF ue.valp[1] = name THEN [obj EXCEPT ![ue.valp[2]] = v] ELSE obj

\* one turn of the while (1) loop, and info = 1 << zeros once it breaks
get_ue_golomb_zeros ==
    /\ ue.pc = "zeros"
    /\ IF getbit_get_left(gb) < 1
       THEN /\ ue' = [ue EXCEPT !.pc = "ret", !.err = EBADMSG]
            /\ UNCHANGED <<gb, stderr, build>>
       ELSE LET r == get_bit(gb)
            IN  /\ gb' = r.gb
                /\ stderr' = Log(r)
                /\ IF r.bit = 0
                   THEN /\ ue' = [ue EXCEPT !.zeros = @ + 1]
                        /\ build' = build
                   ELSE \E b \in BuildsFor(ue.zeros) :
                            /\ build' = b
                            /\ ue' = [ue EXCEPT !.pc = "info",
                                                !.info = Shl(1, ue.zeros, b),
                                                !.i = ue.zeros - 1]
    /\ UNCHANGED <<buf, len, sps, pc, ret, loc, sm, caller>>

\* one turn of the for loop, and the store through valp once it ends
get_ue_golomb_info ==
    /\ ue.pc = "info"
    /\ IF ue.i >= 0
       THEN IF getbit_get_left(gb) < 1
            THEN /\ ue' = [ue EXCEPT !.pc = "ret", !.err = EBADMSG]
                 /\ UNCHANGED <<gb, stderr, build, sps, loc, sm, caller>>
            ELSE LET r == get_bit(gb)
                 IN  /\ gb' = r.gb
                     /\ stderr' = Log(r)
                     /\ \E b \in BuildsFor(ue.i) :
                            /\ build' = b
                            /\ ue' = [ue EXCEPT
                                        !.info = U32Or(@, Shl(r.bit, ue.i, b)),
                                        !.i = @ - 1]
                     /\ UNCHANGED <<sps, loc, sm, caller>>
       ELSE LET v == ue_value(ue.info)
            IN  /\ sps' = Store(sps, "sps", v)
                /\ loc' = Store(loc, "loc", v)
                /\ sm' = Store(sm, "sm", v)
                /\ caller' = Store(caller, "caller", v)
                /\ ue' = [ue EXCEPT !.pc = "ret", !.err = 0]
                /\ UNCHANGED <<gb, stderr, build>>
    /\ UNCHANGED <<buf, len, pc, ret>>

---------------------------------------------------------------------------
(* h264_sps_decode: the records *)

\* struct h264_sps after memset(sps, 0, sizeof(*sps))
SpsZero ==
    [profile_idc |-> 0, level_idc |-> 0, seq_parameter_set_id |-> 0,
     chroma_format_idc |-> 0,
     log2_max_frame_num |-> W(0), pic_order_cnt_type |-> W(0),
     max_num_ref_frames |-> W(0), pic_width_in_mbs |-> W(0),
     pic_height_in_map_units |-> W(0),
     frame_cropping_flg |-> FALSE,
     frame_crop_left_offset |-> W(0), frame_crop_right_offset |-> W(0),
     frame_crop_top_offset |-> W(0), frame_crop_bottom_offset |-> W(0),
     width_cropped |-> W(0), height_cropped |-> W(0),
     width |-> W(0), height |-> W(0)]

(***************************************************************************)
(* The locals of h264_sps_decode.  Only chroma_format_idc has an           *)
(* initializer; the others are written before they are read, so what they  *)
(* hold before that is never seen.                                         *)
(***************************************************************************)
LocInit ==
    [profile_idc |-> 0, seq_parameter_set_id |-> W(0),
     frame_mbs_only_flag |-> 0, chroma_format_idc |-> W(1),
     mb_w_m1 |-> W(0), mb_h_m1 |-> W(0), err |-> 0,
     crop_left |-> W(0), crop_right |-> W(0),
     crop_top |-> W(0), crop_bottom |-> W(0), sx |-> 0, sy |-> 0]

\* the locals of decode_scaling_matrix (i, usedefaultscalingmatrix) and of
\* scaling_list (j, lastscale, nextscale, delta_scale, the list written)
SmInit ==
    [i |-> 0, usedefaultscalingmatrix |-> [k \in 0..11 |-> "unset"],
     sizeofscalinglist |-> 0, j |-> 0, lastscale |-> 0, nextscale |-> 0,
     delta_scale |-> W(0), scaling_list |-> <<>>]

HighProfiles == {100, 110, 122, 244, 44, 83, 86, 118, 128, 138, 144}

\* return e, having printed msgs
Return(e, msgs) ==
    /\ pc' = "done"
    /\ ret' = e
    /\ ue' = UEIdle
    /\ stderr' = stderr \cup msgs

\* go on at label next, with ue the frame of the call made on the way (or idle)
Goto(next, frame) ==
    /\ pc' = next
    /\ ret' = ret
    /\ ue' = frame

---------------------------------------------------------------------------
(* h264_sps_decode: the steps *)

\* lines 145-155: the argument check, memset, bytes 0 and 2, getbit_init
sps_decode_entry ==
    /\ pc = "entry"
    /\ IF len < 3
       THEN /\ Return(EINVAL, {})
            /\ UNCHANGED <<sps, loc, gb, sm>>
       ELSE /\ sps' = [SpsZero EXCEPT !.level_idc = buf[3]]
            /\ loc' = [LocInit EXCEPT !.profile_idc = buf[1]]
            /\ gb' = getbit_init((len - 3) * 8)
            /\ sm' = SmInit
            /\ Goto("seq_parameter_set_id", UECall(<<"loc", "seq_parameter_set_id">>))
            /\ stderr' = stderr
    /\ UNCHANGED <<buf, len, build, caller>>

\* lines 156-179 (and 216 for the other profiles)
sps_decode_seq_parameter_set_id ==
    /\ pc = "seq_parameter_set_id" /\ ue.pc = "ret"
    /\ IF ue.err # 0
       THEN Return(ue.err, {})
       ELSE IF ~WLt(loc.seq_parameter_set_id, W(MAX_SPS_COUNT))
       THEN Return(EBADMSG, {"sps_id out of range"})
       ELSE /\ IF loc.profile_idc \in HighProfiles
               THEN Goto("chroma_format_idc", UECall(<<"loc", "chroma_format_idc">>))
               ELSE Goto("log2_max_frame_num", UECall(<<"sps", "log2_max_frame_num">>))
            /\ stderr' = stderr
    /\ UNCHANGED <<buf, len, sps, gb, loc, sm, build, caller>>

\* lines 180-196
sps_decode_chroma_format_idc ==
    /\ pc = "chroma_format_idc" /\ ue.pc = "ret"
    /\ IF ue.err # 0
       THEN Return(ue.err, {}) /\ gb' = gb
       ELSE IF WLt(W(3), loc.chroma_format_idc)
       THEN Return(EBADMSG, {}) /\ gb' = gb
       ELSE IF loc.chroma_format_idc = W(3)
       THEN IF getbit_get_left(gb) < 1
            THEN Return(EBADMSG, {}) /\ gb' = gb
            ELSE LET r == get_bit(gb)  \* separate_colour_plane_flag
                 IN  /\ gb' = r.gb
                     /\ stderr' = Log(r)
                     /\ Goto("bit_depth_luma", UECall(<<"NULL", "">>))
       ELSE /\ Goto("bit_depth_luma", UECall(<<"NULL", "">>))
            /\ UNCHANGED <<gb, stderr>>
    /\ UNCHANGED <<buf, len, sps, loc, sm, build, caller>>

\* line 196's result, line 197's call
sps_decode_bit_depth_luma ==
    /\ pc = "bit_depth_luma" /\ ue.pc = "ret"
    /\ loc' = [loc EXCEPT !.err = ue.err]
    /\ Goto("bit_depth_chroma", UECall(<<"NULL", "">>))
    /\ UNCHANGED <<buf, len, sps, gb, sm, stderr, build, caller>>

\* lines 197-205
sps_decode_bit_depth_chroma ==
    /\ pc = "bit_depth_chroma" /\ ue.pc = "ret"
    /\ LET err == IntOr(loc.err, ue.err)
       IN  /\ loc' = [loc EXCEPT !.err = err]
           /\ IF err # 0
              THEN Return(err, {}) /\ gb' = gb
              ELSE IF getbit_get_left(gb) < 2
              THEN Return(EBADMSG, {}) /\ gb' = gb
              ELSE LET r == get_bit(gb)  \* qpprime_y_zero_transform_bypass_flag
                   IN  /\ gb' = r.gb
                       /\ stderr' = Log(r)
                       /\ Goto("seq_scaling_matrix_present_flag", UEIdle)
    /\ UNCHANGED <<buf, len, sps, sm, build, caller>>

\* lines 207-216
sps_decode_seq_scaling_matrix_present_flag ==
    /\ pc = "seq_scaling_matrix_present_flag"
    /\ LET r == get_bit(gb)
       IN  /\ gb' = r.gb
           /\ stderr' = Log(r)
           /\ IF r.bit = 1
              THEN Goto("decode_scaling_matrix", UEIdle)
              ELSE Goto("log2_max_frame_num", UECall(<<"sps", "log2_max_frame_num">>))
    /\ UNCHANGED <<buf, len, sps, loc, sm, build, caller>>

\* the twelve lists of chroma_format_idc 3 forgotten
ScalingListCountAlways8(chroma_format_idc) == 8

\* line 96: the number of lists
ScalingListCount(chroma_format_idc) == IF chroma_format_idc # W(3) THEN 8 ELSE 12

\* line 68: nextscale = (lastscale + delta_scale + 256) % 256
NextScale(lastscale, delta_scale) ==
    U32Mod256(U32Add(U32Add(W(lastscale), delta_scale), W(256)))

\* decode_scaling_matrix, lines 96-121: one turn of its loop, or its return
\* of 0 and lines 211-216 of h264_sps_decode
decode_scaling_matrix ==
    /\ pc = "decode_scaling_matrix"
    /\ IF sm.i < ScalingListCount(loc.chroma_format_idc)
       THEN IF getbit_get_left(gb) < 1
            THEN Return(EBADMSG, {}) /\ UNCHANGED <<gb, sm>>
            ELSE LET r == get_bit(gb)  \* seq_scaling_list_present_flag
                 IN  /\ gb' = r.gb
                     /\ stderr' = Log(r)
                     /\ IF r.bit = 1
                        THEN /\ sm' = [sm EXCEPT
                                    !.sizeofscalinglist = IF sm.i < 6 THEN 16 ELSE 64,
                                    !.j = 0, !.lastscale = 8, !.nextscale = 8,
                                    !.scaling_list = <<>>]
                             /\ Goto("scaling_list", UEIdle)
                        ELSE /\ sm' = [sm EXCEPT !.i = @ + 1]
                             /\ Goto("decode_scaling_matrix", UEIdle)
       ELSE /\ Goto("log2_max_frame_num", UECall(<<"sps", "log2_max_frame_num">>))
            /\ UNCHANGED <<gb, sm, stderr>>
    /\ UNCHANGED <<buf, len, sps, loc, build, caller>>

\* scaling_list, lines 58-78: the head of one turn of its loop (the call of
\* get_ue_golomb, or the whole turn when nextscale is 0), or its return of 0
\* and the i++ of decode_scaling_matrix
scaling_list ==
    /\ pc = "scaling_list"
    /\ IF sm.j < sm.sizeofscalinglist
       THEN IF sm.nextscale # 0
            THEN /\ Goto("delta_scale", UECall(<<"sm", "delta_scale">>))
                 /\ sm' = sm
            ELSE /\ sm' = [sm EXCEPT !.scaling_list = Append(@, sm.lastscale),
                                     !.j = @ + 1]
                 /\ Goto("scaling_list", UEIdle)
       ELSE /\ sm' = [sm EXCEPT !.i = @ + 1]
            /\ Goto("decode_scaling_matrix", UEIdle)
    /\ UNCHANGED <<buf, len, sps, gb, loc, stderr, build, caller>>

\* scaling_list, lines 65-75: the rest of a turn that read delta_scale; an
\* error goes up through lines 116-117 and 211-212
scaling_list_delta_scale ==
    /\ pc = "delta_scale" /\ ue.pc = "ret"
    /\ IF ue.err # 0
       THEN Return(ue.err, {}) /\ sm' = sm
       ELSE LET nextscale == NextScale(sm.lastscale, sm.delta_scale)
                stored == IF nextscale = 0 THEN sm.lastscale ELSE nextscale
            IN  /\ sm' = [sm EXCEPT
                            !.nextscale = nextscale,
                            !.usedefaultscalingmatrix[sm.i] = (sm.j = 0 /\ nextscale = 0),
                            !.scaling_list = Append(@, stored),
                            !.lastscale = stored,
                            !.j = @ + 1]
                /\ Goto("scaling_list", UEIdle)
                /\ stderr' = stderr
    /\ UNCHANGED <<buf, len, sps, gb, loc, build, caller>>

\* lines 217-228
sps_decode_log2_max_frame_num ==
    /\ pc = "log2_max_frame_num" /\ ue.pc = "ret"
    /\ IF ue.err # 0
       THEN Return(ue.err, {}) /\ sps' = sps
       ELSE LET n == U32Add(sps.log2_max_frame_num, W(4))
            IN  /\ sps' = [sps EXCEPT !.log2_max_frame_num = n]
                /\ IF WLt(W(MAX_LOG2_MAX_FRAME_NUM), n)
                   THEN Return(EBADMSG, {"log2_max_frame_num out of range"})
                   ELSE /\ Goto("pic_order_cnt_type",
                                UECall(<<"sps", "pic_order_cnt_type">>))
                        /\ stderr' = stderr
    /\ UNCHANGED <<buf, len, gb, loc, sm, build, caller>>

\* the final else (ENOTSUP) forgotten
PicOrderCntSyntaxNoElse(t) == IF t = W(0) THEN "lsb" ELSE "none"

\* lines 232-246: what follows pic_order_cnt_type
PicOrderCntSyntax(t) ==
    IF t = W(0) THEN "lsb" ELSE IF t = W(2) THEN "none" ELSE "unsupported"

\* lines 229-248
sps_decode_pic_order_cnt_type ==
    /\ pc = "pic_order_cnt_type" /\ ue.pc = "ret"
    /\ IF ue.err # 0
       THEN Return(ue.err, {})
       ELSE IF PicOrderCntSyntax(sps.pic_order_cnt_type) = "lsb"
       THEN /\ Goto("log2_max_pic_order_cnt_lsb", UECall(<<"NULL", "">>))
            /\ stderr' = stderr
       ELSE IF PicOrderCntSyntax(sps.pic_order_cnt_type) = "none"
       THEN /\ Goto("max_num_ref_frames", UECall(<<"sps", "max_num_ref_frames">>))
            /\ stderr' = stderr
       ELSE Return(ENOTSUP, {"unknown pic_order_cnt_type"})
    /\ UNCHANGED <<buf, len, sps, gb, loc, sm, build, caller>>

\* lines 236-248
sps_decode_log2_max_pic_order_cnt_lsb ==
    /\ pc = "log2_max_pic_order_cnt_lsb" /\ ue.pc = "ret"
    /\ IF ue.err # 0
       THEN Return(ue.err, {})
       ELSE /\ Goto("max_num_ref_frames", UECall(<<"sps", "max_num_ref_frames">>))
            /\ stderr' = stderr
    /\ UNCHANGED <<buf, len, sps, gb, loc, sm, build, caller>>

\* lines 249-258
sps_decode_max_num_ref_frames ==
    /\ pc = "max_num_ref_frames" /\ ue.pc = "ret"
    /\ IF ue.err # 0
       THEN Return(ue.err, {}) /\ gb' = gb
       ELSE IF getbit_get_left(gb) < 1
       THEN Return(EBADMSG, {}) /\ gb' = gb
       ELSE LET r == get_bit(gb)  \* gaps_in_frame_num_value_allowed_flag
            IN  /\ gb' = r.gb
                /\ stderr' = Log(r)
                /\ Goto("mb_w_m1", UECall(<<"loc", "mb_w_m1">>))
    /\ UNCHANGED <<buf, len, sps, loc, sm, build, caller>>

\* line 258's result, line 259's call
sps_decode_mb_w_m1 ==
    /\ pc = "mb_w_m1" /\ ue.pc = "ret"
    /\ loc' = [loc EXCEPT !.err = ue.err]
    /\ Goto("mb_h_m1", UECall(<<"loc", "mb_h_m1">>))
    /\ UNCHANGED <<buf, len, sps, gb, sm, stderr, build, caller>>

\* lines 259-276
sps_decode_mb_h_m1 ==
    /\ pc = "mb_h_m1" /\ ue.pc = "ret"
    /\ LET err == IntOr(loc.err, ue.err)
       IN  IF err # 0
           THEN /\ Return(err, {})
                /\ loc' = [loc EXCEPT !.err = err]
                /\ UNCHANGED <<gb, sps>>
           ELSE IF getbit_get_left(gb) < 1
           THEN /\ Return(EBADMSG, {})
                /\ loc' = [loc EXCEPT !.err = err]
                /\ UNCHANGED <<gb, sps>>
           ELSE LET r == get_bit(gb)  \* frame_mbs_only_flag
                    w == U32Add(loc.mb_w_m1, W(1))
                    h == U32Mul(U32Add(loc.mb_h_m1, W(1)), 2 - r.bit)
                IN  /\ gb' = r.gb
                    /\ loc' = [loc EXCEPT !.err = err, !.frame_mbs_only_flag = r.bit]
                    /\ sps' = [sps EXCEPT !.pic_width_in_mbs = w,
                                          !.pic_height_in_map_units = h]
                    /\ IF ~WLt(w, W(MAX_MACROBLOCKS)) \/ ~WLt(h, W(MAX_MACROBLOCKS))
                       THEN Return(EBADMSG, Log(r) \cup {"width/height overflow"})
                       ELSE /\ Goto("mb_adaptive_frame_field_flag", UEIdle)
                            /\ stderr' = Log(r)
    /\ UNCHANGED <<buf, len, sm, build, caller>>

\* lines 278-285
sps_decode_mb_adaptive_frame_field_flag ==
    /\ pc = "mb_adaptive_frame_field_flag"
    /\ IF loc.frame_mbs_only_flag = 0
       THEN IF getbit_get_left(gb) < 1
            THEN Return(EBADMSG, {}) /\ gb' = gb
            ELSE LET r == get_bit(gb)
                 IN  /\ gb' = r.gb
                     /\ stderr' = Log(r)
                     /\ Goto("direct_8x8_inference_flag", UEIdle)
       ELSE /\ Goto("direct_8x8_inference_flag", UEIdle)
            /\ UNCHANGED <<gb, stderr>>
    /\ UNCHANGED <<buf, len, sps, loc, sm, build, caller>>

\* lines 287-291
sps_decode_direct_8x8_inference_flag ==
    /\ pc = "direct_8x8_inference_flag"
    /\ IF getbit_get_left(gb) < 1
       THEN Return(EBADMSG, {}) /\ gb' = gb
       ELSE LET r == get_bit(gb)
            IN  /\ gb' = r.gb
                /\ stderr' = Log(r)
                /\ Goto("frame_cropping_flg", UEIdle)
    /\ UNCHANGED <<buf, len, sps, loc, sm, build, caller>>

\* lines 293-314
sps_decode_frame_cropping_flg ==
    /\ pc = "frame_cropping_flg"
    /\ IF getbit_get_left(gb) < 1
       THEN Return(EBADMSG, {}) /\ UNCHANGED <<gb, sps, loc>>
       ELSE LET r == get_bit(gb)
                vsub == IF loc.chroma_format_idc = W(1) THEN 1 ELSE 0
                hsub == IF loc.chroma_format_idc = W(1) \/ loc.chroma_format_idc = W(2)
                        THEN 1 ELSE 0
            IN  /\ gb' = r.gb
                /\ stderr' = Log(r)
                /\ sps' = [sps EXCEPT
                             !.frame_cropping_flg = (r.bit = 1),
                             !.width = U32Mul(sps.pic_width_in_mbs, MACROBLOCK_SIZE),
                             !.height = U32Mul(sps.pic_height_in_map_units,
                                               MACROBLOCK_SIZE)]
                /\ IF r.bit = 1
                   THEN /\ loc' = [loc EXCEPT
                                     !.sx = 2^hsub,
                                     !.sy = (2 - loc.frame_mbs_only_flag) * 2^vsub]
                        /\ Goto("crop_left", UECall(<<"loc", "crop_left">>))
                   ELSE /\ loc' = loc
                        /\ Goto("success", UEIdle)
    /\ UNCHANGED <<buf, len, sm, build, caller>>

\* line 314's result, line 315's call
sps_decode_crop_left ==
    /\ pc = "crop_left" /\ ue.pc = "ret"
    /\ loc' = [loc EXCEPT !.err = ue.err]
    /\ Goto("crop_right", UECall(<<"loc", "crop_right">>))
    /\ UNCHANGED <<buf, len, sps, gb, sm, stderr, build, caller>>

\* line 315's result, line 316's call
sps_decode_crop_right ==
    /\ pc = "crop_right" /\ ue.pc = "ret"
    /\ loc' = [loc EXCEPT !.err = IntOr(@, ue.err)]
    /\ Goto("crop_top", UECall(<<"loc", "crop_top">>))
    /\ UNCHANGED <<buf, len, sps, gb, sm, stderr, build, caller>>

\* line 316's result, line 317's call
sps_decode_crop_top ==
    /\ pc = "crop_top" /\ ue.pc = "ret"
    /\ loc' = [loc EXCEPT !.err = IntOr(@, ue.err)]
    /\ Goto("crop_bottom", UECall(<<"loc", "crop_bottom">>))
    /\ UNCHANGED <<buf, len, sps, gb, sm, stderr, build, caller>>

\* the test of lines 321-322
CropOutOfRange(l, r, t, b, sx, sy, width, height) ==
    \/ ~WLt(U32Mul(U32Add(l, r), sx), width)
    \/ ~WLt(U32Mul(U32Add(t, b), sy), height)

\* lines 317-330
sps_decode_crop_bottom ==
    /\ pc = "crop_bottom" /\ ue.pc = "ret"
    /\ LET err == IntOr(loc.err, ue.err)
       IN  /\ loc' = [loc EXCEPT !.err = err]
           /\ IF err # 0
              THEN Return(err, {}) /\ sps' = sps
              ELSE IF CropOutOfRange(loc.crop_left, loc.crop_right, loc.crop_top,
                                     loc.crop_bottom, loc.sx, loc.sy,
                                     sps.width, sps.height)
              THEN Return(EBADMSG, {}) /\ sps' = sps
              ELSE /\ sps' = [sps EXCEPT
                        !.frame_crop_left_offset = U32Mul(loc.crop_left, loc.sx),
                        !.frame_crop_right_offset = U32Mul(loc.crop_right, loc.sx),
                        !.frame_crop_top_offset = U32Mul(loc.crop_top, loc.sy),
                        !.frame_crop_bottom_offset = U32Mul(loc.crop_bottom, loc.sy)]
                   /\ Goto("success", UEIdle)
                   /\ stderr' = stderr
    /\ UNCHANGED <<buf, len, gb, sm, build, caller>>

\* lines 333-344
sps_decode_success ==
    /\ pc = "success"
    /\ sps' = [sps EXCEPT
                 !.profile_idc = loc.profile_idc,
                 !.seq_parameter_set_id = loc.seq_parameter_set_id.lo % 256,
                 !.chroma_format_idc = loc.chroma_format_idc.lo % 256,
                 !.width_cropped =
                     U32Sub(U32Sub(U32Mul(sps.pic_width_in_mbs, MACROBLOCK_SIZE),
                                   sps.frame_crop_left_offset),
                            sps.frame_crop_right_offset),
                 !.height_cropped =
                     U32Sub(U32Sub(U32Mul(sps.pic_height_in_map_units, MACROBLOCK_SIZE),
                                   sps.frame_crop_top_offset),
                            sps.frame_crop_bottom_offset)]
    /\ Return(0, {})
    /\ UNCHANGED <<buf, len, gb, loc, sm, build, caller>>

---------------------------------------------------------------------------
(* The calling program *)

\* what the caller's record holds before its first call
SpsPrior ==
    [f \in DOMAIN SpsZero |->
        IF f = "frame_cropping_flg" THEN TRUE
        ELSE IF f \in {"profile_idc", "level_idc", "seq_parameter_set_id",
                       "chroma_format_idc"} THEN 165
        ELSE WHL(42405, 42405)]

CallerInit == [run |-> 1, before |-> SpsPrior, len1 |-> 0, k |-> 0,
               v |-> W(0), val |-> WHL(42405, 42405)]

(***************************************************************************)
(* After a call that succeeded having read k bits, the caller calls again  *)
(* with the same bytes and a smaller length n >= 3 that cuts into those k  *)
(* bits: the buffer truncated.                                             *)
(***************************************************************************)
CallTruncated ==
    /\ pc = "done" /\ ret = 0 /\ caller.run = 1
    /\ \E n \in 3..(len - 1) :
        /\ (n - 3) * 8 < gb.pos
        /\ len' = n
    /\ caller' = [caller EXCEPT !.run = 2, !.before = sps, !.len1 = len,
                                !.k = gb.pos]
    /\ pc' = "entry"
    /\ gb' = getbit_init(0)
    /\ loc' = LocInit
    /\ sm' = SmInit
    /\ UNCHANGED <<buf, sps, ret, ue, stderr, build>>

---------------------------------------------------------------------------
(* Inputs: the writer of the bitstreams the decoder is run on *)

\* n > 0 in binary, most significant bit first
RECURSIVE NatBits(_)
NatBits(n) == IF n = 0 THEN <<>> ELSE Append(NatBits(n \div 2), n % 2)

\* the low w bits of n, most significant first
FixedBits(n, w) == [k \in 1..w |-> (n \div 2^(w - k)) % 2]

WideBits(x) ==
    IF x.hi = 0 THEN NatBits(x.lo) ELSE NatBits(x.hi) \o FixedBits(x.lo, 16)

Zeros(n) == [k \in 1..n |-> 0]

\* the Exponential-Golomb codeword of v: zeros, then v + 1 in binary
ExpGolomb(v) ==
    LET b == WideBits(WAdd(v, W(1)))
    IN  Zeros(Len(b) - 1) \o b

RECURSIVE Concat(_)
Concat(ss) == IF ss = <<>> THEN <<>> ELSE Head(ss) \o Concat(Tail(ss))

\* bits to bytes, the last byte filled up with zeros
Pack(bits) ==
    LET bit(n) == IF n <= Len(bits) THEN bits[n] ELSE 0
    IN  [k \in 1..((Len(bits) + 7) \div 8) |->
            bit(8*k - 7) * 128 + bit(8*k - 6) * 64 + bit(8*k - 5) * 32
            + bit(8*k - 4) * 16 + bit(8*k - 3) * 8 + bit(8*k - 2) * 4
            + bit(8*k - 1) * 2 + bit(8*k)]

\* one scaling list as written: no flag set, or the flag and its deltas
ListBits(deltas) ==
    IF deltas = <<>> THEN <<0>>
    ELSE <<1>> \o Concat([k \in 1..Len(deltas) |-> ExpGolomb(deltas[k])])

\* seq_scaling_matrix_present_flag and the lists
MatrixBits(lists) ==
    IF lists = <<>> THEN <<0>>
    ELSE <<1>> \o Concat([k \in 1..Len(lists) |-> ListBits(lists[k])])

\* the payload of a stream s, field by field in the order of the syntax
SpsBits(s) ==
    ExpGolomb(s.id)
    \o (IF s.profile \in HighProfiles
        THEN ExpGolomb(s.chroma)
             \o (IF s.chroma = W(3) THEN <<0>> ELSE <<>>)
             \o ExpGolomb(s.bit_depth_luma) \o ExpGolomb(s.bit_depth_chroma)
             \o <<0>> \o MatrixBits(s.matrix)
        ELSE <<>>)
    \o ExpGolomb(s.log2) \o ExpGolomb(s.poc)
    \o (IF s.poc = W(0) THEN ExpGolomb(s.poc_lsb) ELSE <<>>)
    \o ExpGolomb(s.refs) \o <<0>>
    \o ExpGolomb(s.mb_w) \o ExpGolomb(s.mb_h) \o <<s.fmo>>
    \o (IF s.fmo = 0 THEN <<0>> ELSE <<>>)
    \o <<1>>
    \o (IF s.crop = <<>> THEN <<0>>
        ELSE <<1>> \o Concat([k \in 1..4 |-> ExpGolomb(s.crop[k])]))

SpsBytes(s) == <<s.profile, 0, s.level>> \o Pack(SpsBits(s))

\* the spec's end-to-end example: bytes 42 00 1E DD E0
Base ==
    [profile |-> 66, level |-> 30, id |-> W(0), chroma |-> W(1),
     bit_depth_luma |-> W(0), bit_depth_chroma |-> W(0), matrix |-> <<>>,
     log2 |-> W(0), poc |-> W(2), poc_lsb |-> W(0), refs |-> W(0),
     mb_w |-> W(0), mb_h |-> W(0), fmo |-> 1, crop |-> <<>>]

High == [Base EXCEPT !.profile = 100]

\* values at the edges of the range checks and of the 32-bit range
Pow19m1 == WHL(7, 65535)        \* 2^19 - 1
Pow20m2 == WHL(15, 65534)       \* 2^20 - 2
Pow20m1 == WHL(15, 65535)       \* 2^20 - 1
Pow30 == WHL(16384, 0)          \* 2^30
Pow31m1 == WHL(32767, 65535)    \* 2^31 - 1
Pow32m4 == WHL(65535, 65532)    \* 2^32 - 4
Pow32m2 == WHL(65535, 65534)    \* 2^32 - 2, the longest codeword of 31 zeros
Pow32m1 == WHL(65535, 65535)    \* 2^32 - 1: a codeword of 32 zeros
Pow32 == WHL(65536, 0)          \* 2^32: 32 zeros, suffix 1
Pow33m1 == WHL(131071, 65535)   \* 2^33 - 1: a codeword of 33 zeros

IdStreams ==
    {[Base EXCEPT !.id = v] : v \in {W(0), W(31), W(32), Pow32m1, Pow32, Pow33m1}}

Log2Streams ==
    {[Base EXCEPT !.log2 = v] : v \in {W(12), W(13), Pow32m4, Pow32m2}}

PocStreams ==
    {[Base EXCEPT !.poc = v, !.poc_lsb = l] :
        v \in {W(0), W(1), W(2), W(3), WHL(1, 0), WHL(1, 2)}, l \in {W(0), W(5)}}

DimStreams ==
    {[Base EXCEPT !.refs = W(4), !.mb_w = w, !.mb_h = h, !.fmo = f] :
        w \in {W(0), W(119), Pow20m2, Pow20m1},
        h \in {W(0), W(67), Pow19m1, Pow20m2, Pow20m1, Pow31m1},
        f \in {0, 1}}

CropValues == {W(0), W(3), W(4), Pow30}

CropStreams ==
    {[Base EXCEPT !.crop = <<l, r, W(0), W(0)>>] : l \in CropValues, r \in CropValues}
    \cup {[Base EXCEPT !.crop = <<W(0), W(0), t, b>>, !.fmo = f] :
            t \in CropValues, b \in CropValues, f \in {0, 1}}
    \cup {[High EXCEPT !.chroma = c, !.crop = <<W(7), W(8), W(1), W(14)>>, !.fmo = f] :
            c \in {W(0), W(1), W(2), W(3)}, f \in {0, 1}}
    \cup {[High EXCEPT !.chroma = c, !.crop = <<W(8), W(8), W(0), W(0)>>] :
            c \in {W(0), W(2)}}

\* scaling lists as written: <<>> is a list whose flag is 0
Flat(n) == [k \in 1..n |-> W(0)]

Matrices ==
    { <<>>,
      [k \in 1..8 |-> <<>>],
      [k \in 1..12 |-> <<>>],
      <<Flat(16), <<>>, <<W(248)>>, <<>>, <<>>, <<>>, <<>>, <<>>>>,
      <<<<>>, <<W(3), W(245)>>, <<>>, <<>>, <<>>, <<>>,
        <<W(1), W(247)>>, <<>>, <<>>, <<>>, <<>>, <<Pow32m2, W(250)>>>>,
      <<<<>>, <<>>, <<>>, <<>>, <<>>, <<>>, Flat(64), <<>>>> }

HighStreams ==
    {[High EXCEPT !.chroma = c, !.matrix = m] :
        c \in {W(0), W(1), W(2), W(3), W(4)}, m \in Matrices}
    \cup {[High EXCEPT !.profile = p, !.bit_depth_luma = W(2),
                       !.bit_depth_chroma = W(6)] : p \in {44, 244}}

Streams ==
    IdStreams \cup Log2Streams \cup PocStreams \cup DimStreams \cup CropStreams
    \cup HighStreams

\* payloads of arbitrary bytes
MaxFuzzLen == 3

FuzzBytes == {0, 1, 90, 128, 221, 255}

RECURSIVE Payloads(_)
Payloads(n) ==
    IF n = 0 THEN {<<>>}
    ELSE LET shorter == Payloads(n - 1)
         IN  shorter \cup {Append(q, b) : q \in shorter, b \in FuzzBytes}

FuzzBuffers ==
    {<<p, 0, 30>> \o q : p \in {66, 100}, q \in Payloads(MaxFuzzLen)}

\* buffers shorter than the three bytes the decoder asks for
ShortBuffers == {<<>>, <<66>>, <<66, 0>>}

Inputs == {SpsBytes(s) : s \in Streams} \cup FuzzBuffers \cup ShortBuffers

---------------------------------------------------------------------------
(* The program: one call of h264_sps_decode on each input, and a second    *)
(* call on the input truncated                                             *)

Init ==
    /\ buf \in Inputs
    /\ len = Len(buf)
    /\ sps = SpsPrior
    /\ pc = "entry"
    /\ ret = 0
    /\ gb = getbit_init(0)
    /\ ue = UEIdle
    /\ loc = LocInit
    /\ sm = SmInit
    /\ stderr = {}
    /\ build = "any"
    /\ caller = CallerInit

Next ==
    \/ sps_decode_entry
    \/ sps_decode_seq_parameter_set_id
    \/ sps_decode_chroma_format_idc
    \/ sps_decode_bit_depth_luma
    \/ sps_decode_bit_depth_chroma
    \/ sps_decode_seq_scaling_matrix_present_flag
    \/ decode_scaling_matrix
    \/ scaling_list
    \/ scaling_list_delta_scale
    \/ sps_decode_log2_max_frame_num
    \/ sps_decode_pic_order_cnt_type
    \/ sps_decode_log2_max_pic_order_cnt_lsb
    \/ sps_decode_max_num_ref_frames
    \/ sps_decode_mb_w_m1
    \/ sps_decode_mb_h_m1
    \/ sps_decode_mb_adaptive_frame_field_flag
    \/ sps_decode_direct_8x8_inference_flag
    \/ sps_decode_frame_cropping_flg
    \/ sps_decode_crop_left
    \/ sps_decode_crop_right
    \/ sps_decode_crop_top
    \/ sps_decode_crop_bottom
    \/ sps_decode_success
    \/ get_ue_golomb_zeros
    \/ get_ue_golomb_info
    \/ CallTruncated

Spec == Init /\ [][Next]_vars

---------------------------------------------------------------------------
(* get_ue_golomb on its own: a caller that hands it a cursor over the      *)
(* codeword of v and either the address of val or NULL                     *)

\* every v below 2^RoundTripBits is tried, and the values around each
\* higher power of two up to 2^16
RoundTripBits == 12

UEValues ==
    {W(n) : n \in 0..(2^RoundTripBits - 1)}
    \cup {W(2^k + d) : k \in 1..15, d \in {-2, -1, 0, 1}}
    \cup {W(65534), W(65535), W(65536), Pow20m1, Pow31m1, Pow32m2}

InitUE ==
    /\ \E v \in UEValues :
        /\ buf = <<0, 0, 0>> \o Pack(ExpGolomb(v) \o <<1, 0, 1>>)
        /\ caller = [CallerInit EXCEPT !.v = v]
    /\ len = Len(buf)
    /\ gb = getbit_init((len - 3) * 8)
    /\ ue \in {UECall(<<"caller", "val">>), UECall(<<"NULL", "">>)}
    /\ sps = SpsPrior
    /\ pc = "unit"
    /\ ret = 0
    /\ loc = LocInit
    /\ sm = SmInit
    /\ stderr = {}
    /\ build = "any"

NextUE ==
    \/ get_ue_golomb_zeros
    \/ get_ue_golomb_info

SpecUE == InitUE /\ [][NextUE]_vars

---------------------------------------------------------------------------
(* Properties of the decoder, C1 to C10 *)

Returned(e) == pc = "done" /\ ret = e

Succeeded == Returned(0)

(***************************************************************************)
(* C1: when h264_sps_decode fails, no field of the caller's record holds a *)
(* value taken or decoded from the input: each field is what the caller    *)
(* passed, or the zero of the memset.                                      *)
(***************************************************************************)
C1_NoPartialRecordOnFailure ==
    (pc = "done" /\ ret # 0) =>
        \A f \in DOMAIN sps : sps[f] \in {caller.before[f], SpsZero[f]}

(***************************************************************************)
(* C2: for a buffer of length >= 3, from getbit_init on the cursor has     *)
(* end = (len - 3) * 8 and 0 <= pos <= end; pos never decreases; it moves  *)
(* one bit at a time, only when a bit was left, and the byte read, pos/8,  *)
(* is below len - 3; get_bit is never called with nothing left.            *)
(***************************************************************************)
C2_Step ==
    /\ (pc' # "entry" /\ len' >= 3) =>
            /\ gb'.end = (len' - 3) * 8
            /\ 0 <= gb'.pos
            /\ gb'.pos <= gb'.end
    /\ pc \notin {"entry", "done"} =>
            /\ gb'.pos >= gb.pos
            /\ gb'.pos # gb.pos =>
                    /\ gb'.pos = gb.pos + 1
                    /\ gb.end - gb.pos >= 1
                    /\ gb.pos \div 8 < len - 3
    /\ "get_bit: read past end" \notin stderr'

C2_CursorInBounds == [][C2_Step]_vars

\* C2's case: a buffer of arbitrary bytes read to its last bit, the decode
\* ending in EBADMSG there
C2_Witness ==
    /\ Returned(EBADMSG)
    /\ buf = <<100, 0, 30, 90, 0, 1>>
    /\ gb.pos = gb.end
    /\ gb.end = 24

(***************************************************************************)
(* C3: with frame_cropping_flag set the decode succeeds only if, as exact  *)
(* integers, (crop_left + crop_right) * sx < width and                     *)
(* (crop_top + crop_bottom) * sy < height; so the stored offsets add up to *)
(* less than width and height, and the cropped sizes are at most them.     *)
(***************************************************************************)
C3_CropValidatedExactly ==
    (Succeeded /\ sps.frame_cropping_flg) =>
        /\ WLt(WMul(WAdd(loc.crop_left, loc.crop_right), loc.sx), sps.width)
        /\ WLt(WMul(WAdd(loc.crop_top, loc.crop_bottom), loc.sy), sps.height)
        /\ WLt(WAdd(sps.frame_crop_left_offset, sps.frame_crop_right_offset), sps.width)
        /\ WLt(WAdd(sps.frame_crop_top_offset, sps.frame_crop_bottom_offset), sps.height)
        /\ WLe(sps.width_cropped, sps.width)
        /\ WLe(sps.height_cropped, sps.height)

(***************************************************************************)
(* C4: on success 1 <= pic_width_in_mbs < 2^20 and                         *)
(* 1 <= pic_height_in_map_units < 2^20, so width >= 16 and height >= 16;  *)
(* an input whose pic_width_in_mbs_minus1 + 1 or                           *)
(* (pic_height_in_map_units_minus1 + 1) * (2 - frame_mbs_only_flag) is,    *)
(* as an exact integer, >= 2^20 is rejected.                               *)
(***************************************************************************)
C4_MacroblockCountsInRange ==
    Succeeded =>
        /\ WLe(W(1), sps.pic_width_in_mbs)
        /\ WLt(sps.pic_width_in_mbs, W(MAX_MACROBLOCKS))
        /\ WLe(W(1), sps.pic_height_in_map_units)
        /\ WLt(sps.pic_height_in_map_units, W(MAX_MACROBLOCKS))
        /\ WLe(W(16), sps.width)
        /\ WLe(W(16), sps.height)
        /\ WLt(WAdd(loc.mb_w_m1, W(1)), W(MAX_MACROBLOCKS))
        /\ WLt(WMul(WAdd(loc.mb_h_m1, W(1)), 2 - loc.frame_mbs_only_flag),
               W(MAX_MACROBLOCKS))

(***************************************************************************)
(* C5: on success log2_max_frame_num is in 4..16.                          *)
(***************************************************************************)
C5_Log2MaxFrameNumInRange ==
    Succeeded =>
        /\ WLe(W(4), sps.log2_max_frame_num)
        /\ WLe(sps.log2_max_frame_num, W(MAX_LOG2_MAX_FRAME_NUM))

(***************************************************************************)
(* C6: get_ue_golomb returns EBADMSG for a codeword of 32 or more leading  *)
(* zeros: its value does not fit the 32-bit output.                        *)
(***************************************************************************)
C6_LongCodewordRejected ==
    (ue.pc = "ret" /\ ue.zeros >= 32) => ue.err = EBADMSG

(***************************************************************************)
(* C7: for v in [0, 2^16), get_ue_golomb on the codeword of v returns 0,   *)
(* stores exactly v through valp, and moves the cursor by 2 * zeros + 1    *)
(* bits, zeros the number of leading zeros of the codeword; with valp NULL *)
(* it stores nothing and moves the cursor by the same amount.              *)
(***************************************************************************)
C7_RoundTrip ==
    (pc = "unit" /\ ue.pc = "ret" /\ WLt(caller.v, W(65536))) =>
        LET zeros == Len(NatBits(caller.v.lo + 1)) - 1
        IN  /\ ue.err = 0
            /\ ue.zeros = zeros
            /\ gb.pos = 2 * zeros + 1
            /\ caller.val = IF ue.valp = <<"NULL", "">> THEN CallerInit.val
                            ELSE caller.v

\* C7's case: 65535, the largest v of the range (16 zeros, 33 bits), decoded
\* and stored
C7_Witness ==
    /\ pc = "unit" /\ ue.pc = "ret"
    /\ caller.v = W(65535)
    /\ caller.val = W(65535)
    /\ gb.pos = 33

(***************************************************************************)
(* C8: once pic_order_cnt_type is decoded, h264_sps_decode returns ENOTSUP *)
(* if and only if it is neither 0 nor 2 (and returns ENOTSUP nowhere       *)
(* else); for 0 exactly one more Golomb value is read, and discarded, and  *)
(* for 2 none, before max_num_ref_frames is read.                          *)
(***************************************************************************)
C8_Step ==
    LET decoded == pc = "pic_order_cnt_type" /\ ue.pc = "ret" /\ ue.err = 0
        t == sps.pic_order_cnt_type
        max_num_ref_frames == UECall(<<"sps", "max_num_ref_frames">>)
    IN  /\ (pc # "done" /\ pc' = "done" /\ ret' = ENOTSUP)
                <=> (decoded /\ t \notin {W(0), W(2)})
        /\ (decoded /\ t = W(0)) =>
                /\ pc' = "log2_max_pic_order_cnt_lsb"
                /\ ue' = UECall(<<"NULL", "">>)
                /\ gb' = gb
        /\ (pc = "log2_max_pic_order_cnt_lsb" /\ ue.pc = "ret" /\ ue.err = 0) =>
                /\ pc' = "max_num_ref_frames"
                /\ ue' = max_num_ref_frames
                /\ gb' = gb
        /\ (decoded /\ t = W(2)) =>
                /\ pc' = "max_num_ref_frames"
                /\ ue' = max_num_ref_frames
                /\ gb' = gb

C8_UnsupportedIff == [][C8_Step]_vars

\* C8's case: pic_order_cnt_type decoded as 1, ENOTSUP returned
C8_Witness ==
    /\ Returned(ENOTSUP)
    /\ sps.pic_order_cnt_type = W(1)
    /\ "unknown pic_order_cnt_type" \in stderr

(***************************************************************************)
(* C9: a buffer on which the decode succeeded having read k bits, cut to a *)
(* length n >= 3 with (n - 3) * 8 < k, yields EBADMSG.                     *)
(***************************************************************************)
C9_TruncationIsMalformed ==
    (pc = "done" /\ caller.run = 2) => ret = EBADMSG

\* C9's case: the cut falls into pic_width_in_mbs_minus1, so both calls of
\* lines 258-259 fail and their results are or-ed
C9_Witness ==
    /\ Returned(EBADMSG) /\ caller.run = 2
    /\ (len - 3) * 8 < caller.k
    /\ loc.err = EBADMSG
    /\ gb.pos = gb.end
    /\ sps.max_num_ref_frames = W(4)
    /\ sps.pic_width_in_mbs = W(0)

(***************************************************************************)
(* C10: decode_scaling_matrix reads one flag bit for each of 8 lists, 12   *)
(* when chroma_format_idc is 3; a list whose flag is set has size 16 for   *)
(* the lists 0..5 and 64 for the others and starts with lastscale =        *)
(* nextscale = 8; a delta_scale is read at a position if and only if       *)
(* nextscale # 0 there, nextscale becomes (lastscale + delta_scale + 256)  *)
(* mod 256 and the value stored is nextscale if nonzero, else lastscale;   *)
(* once nextscale is 0 the cursor stays where it is to the end of the      *)
(* list; at most size deltas are read for a list.                          *)
(***************************************************************************)
C10_Step ==
    LET n == IF loc.chroma_format_idc = W(3) THEN 12 ELSE 8
        size == sm.sizeofscalinglist
        next == WAdd(WAdd(W(sm.lastscale), sm.delta_scale), W(256)).lo % 256
        stored == IF next # 0 THEN next ELSE sm.lastscale
    IN  /\ pc = "decode_scaling_matrix" =>
            /\ sm.i <= n
            /\ (sm.i < n /\ pc' # "done") => gb'.pos = gb.pos + 1
            /\ (sm.i < n /\ pc' = "done") => (gb.pos = gb.end /\ ret' = EBADMSG)
            /\ pc' = "scaling_list" =>
                    /\ sm'.i = sm.i
                    /\ sm'.sizeofscalinglist = (IF sm.i < 6 THEN 16 ELSE 64)
                    /\ sm'.lastscale = 8 /\ sm'.nextscale = 8 /\ sm'.j = 0
            /\ pc' = "decode_scaling_matrix" => sm'.i = sm.i + 1
            /\ (pc' = "log2_max_frame_num") <=> (sm.i = n)
            /\ sm.i = n => gb' = gb
        /\ pc = "scaling_list" =>
            /\ gb' = gb
            /\ sm.j <= size
            /\ Len(sm.scaling_list) = sm.j
            /\ (pc' = "delta_scale") <=> (sm.j < size /\ sm.nextscale # 0)
            /\ (sm.j < size /\ sm.nextscale = 0) =>
                    /\ pc' = "scaling_list"
                    /\ sm' = [sm EXCEPT !.j = @ + 1,
                                        !.scaling_list = Append(@, sm.lastscale)]
            /\ sm.j = size => (pc' = "decode_scaling_matrix" /\ sm'.i = sm.i + 1)
        /\ (pc = "delta_scale" /\ ue.pc = "ret" /\ ue.err = 0) =>
            /\ pc' = "scaling_list"
            /\ gb' = gb
            /\ sm'.nextscale = next
            /\ sm'.scaling_list = Append(sm.scaling_list, stored)
            /\ sm'.lastscale = stored
            /\ sm'.j = sm.j + 1

C10_ScalingMatrix == [][C10_Step]_vars

\* C10's case: chroma_format_idc 3, all twelve flags read, the last list an
\* 8x8 one whose nextscale became 0 after two deltas
C10_Witness ==
    /\ pc = "decode_scaling_matrix"
    /\ loc.chroma_format_idc = W(3)
    /\ sm.i = 12
    /\ Len(sm.scaling_list) = 64
    /\ sm.nextscale = 0
    /\ sm.scaling_list[1] = 6 /\ sm.scaling_list[64] = 6

====
